---- MODULE Spec2Model ----
(***************************************************************************)
(* Model of autoproject's task execution engine (autoproject/models.py):   *)
(* Project.execute (the dependency-driven scheduler and the tool-call      *)
(* bridge), Project.update_or_create_assistant / get_openai_assistant      *)
(* (the agent directory), and the tool namespace of autoproject/functions. *)
(*                                                                         *)
(* Strings that the code formats (assistant names) are sequences of        *)
(* one-character strings, so that formatting is concatenation and two      *)
(* different (name, role) pairs can format to the same identity name.      *)
(***************************************************************************)
EXTENDS Integers, Sequences, FiniteSets, TLC

VARIABLES
    project,          \* self: reference, goals, assistants, tasks (Task.done mutable)
    saved,            \* the project file written/loaded by __main__ before execute
    directory,        \* remote agent directory, newest identity first (list order)
    next_id,          \* remote side: id the next created identity receives
    thread,           \* remote conversation thread, oldest message first
    pc,               \* position of execute
    error,            \* exception that ended execute ("none" while running)
    a_pos,            \* position of the loop over self.assistants (line 63)
    done_count,       \* local done_count (line 72)
    tasks,            \* local dict tasks (line 73): <<[key, ref]>> in key order
    pos,              \* position of the loop over tasks.values() (line 76)
    task,             \* index in project.tasks of the loop's current task
    openai_assistant, \* local openai_assistant (line 88): <<>> is None
    run,              \* local run (lines 90, 117)
    k,                \* position of the loop over the run's tool calls (line 98)
    tool_outputs,     \* local tool_outputs (line 97)
    env,              \* environment: tool rounds and re-executions left, run outcomes
    steps,            \* history: steps taken for the task in flight
    invoked,          \* history: tool names invoked for the run's latest batch
    submitted,        \* history: what was submitted for the run's latest batch
    response,         \* history: response printed for the task in flight
    executed,         \* history: tasks marked done, in order
    reconciled,       \* history: identity names reconciled by this execute
    scan_base         \* history: done_count when the current scan began

vars == <<project, saved, directory, next_id, thread, pc, error, a_pos,
          done_count, tasks, pos, task, openai_assistant, run, k,
          tool_outputs, env, steps, invoked, submitted, response, executed,
          reconciled, scan_base>>

----------------------------------------------------------------------------
(* Bounds of the model. *)

MaxTasks == 2
MaxAssistants == 2
MaxRounds == 2
MaxCalls == 2
MaxReruns == 1

SeqsUpTo(S, n) == UNION {[1..m -> S] : m \in 0..n}

NoRepeat(s) == \A i, j \in 1..Len(s) : i # j => s[i] # s[j]

Range(s) == {s[i] : i \in 1..Len(s)}

----------------------------------------------------------------------------
(* autoproject/functions.py: the names getattr(available_functions, _)     *)
(* resolves.                                                               *)

\* get_function_list(): the tool registry offered to the planner.
Registry == {"page_metadata", "page_screenshot", "page_scrape", "search_internet"}

\* Callable attributes of the functions module (functions, classes, imports).
ModuleCallables ==
    Registry \cup {"get_function_list", "PageMetadata", "slugify",
                   "partition_html", "sync_playwright", "HtmlMetaDataParse",
                   "BaseModel"}

\* Every attribute of the functions module that getattr finds.
ModuleAttrs == ModuleCallables \cup {"MAX_IMAGE_SIZE", "os", "requests", "Image"}

\* Tool names a remote run may put in a tool-call request.
RequestedNames ==
    {"page_metadata", "search_internet", "get_function_list",
     "MAX_IMAGE_SIZE", "delete_files"}

----------------------------------------------------------------------------
(* Data model: Assistant, Task, Project.                                   *)

Assistant(n, r) ==
    [name |-> n, role |-> r, instructions |-> <<"persona">>, tools |-> <<>>]

Requirement(t) == [title |-> t, description |-> <<"needs", t>>]

Task(t, a, d, deps, fs) ==
    [title |-> t, instructions |-> <<"do", t>>, assigned_to |-> a,
     done |-> d, depends_on |-> deps, functions |-> fs]

Project(ref, as, ts) ==
    [reference |-> ref, goals |-> <<"goal">>, assistants |-> as, tasks |-> ts,
     requirements |-> <<>>]

\* Project.generate_assistant_name: f"{reference}-{name}-{role}".
generate_assistant_name(self, assistant) ==
    self.reference \o <<"-">> \o assistant.name \o <<"-">> \o assistant.role

\* The params dict of update_or_create_assistant.
AssistantParams(self, assistant) ==
    [name |-> generate_assistant_name(self, assistant),
     description |-> <<assistant.role, self.reference>>,
     instructions |-> <<assistant.name, assistant.role,
                        assistant.instructions, self.goals>>]

----------------------------------------------------------------------------
(* Project.save and Project.load: model_dump and json.dump write a JSON    *)
(* document, json.load and model_validate read it. In the document an      *)
(* object is a record of its keys, a list a sequence, a string a quoted    *)
(* value and a boolean one of the literals true and false.                 *)

JsonStr(x) == [str |-> x]

JsonBool(b) == IF b THEN "true" ELSE "false"

StrOf(j) == j.str

BoolOf(j) == j = "true"

StrList(xs) == [i \in 1..Len(xs) |-> JsonStr(xs[i])]

StrListOf(j) == [i \in 1..Len(j) |-> StrOf(j[i])]

\* A key is present in a JSON object; an absent key takes the field's default.
Has(obj, key) == key \in DOMAIN obj

DumpAssistant(a) ==
    [name |-> JsonStr(a.name), role |-> JsonStr(a.role),
     instructions |-> JsonStr(a.instructions), tools |-> StrList(a.tools)]

DumpRequirement(r) ==
    [title |-> JsonStr(r.title), description |-> JsonStr(r.description)]

\* Mutant of DumpTask: the done flag is not written.
DumpTaskWithoutDone(t) ==
    [title |-> JsonStr(t.title), instructions |-> JsonStr(t.instructions),
     assigned_to |-> DumpAssistant(t.assigned_to),
     depends_on |-> StrList(t.depends_on), functions |-> StrList(t.functions)]

DumpTask(t) ==
    [title |-> JsonStr(t.title), instructions |-> JsonStr(t.instructions),
     assigned_to |-> DumpAssistant(t.assigned_to), done |-> JsonBool(t.done),
     depends_on |-> StrList(t.depends_on), functions |-> StrList(t.functions)]

\* Project.save: json.dump(self.model_dump(), file).
save(self) ==
    [reference |-> JsonStr(self.reference), goals |-> StrList(self.goals),
     assistants |-> [i \in 1..Len(self.assistants) |-> DumpAssistant(self.assistants[i])],
     tasks |-> [i \in 1..Len(self.tasks) |-> DumpTask(self.tasks[i])],
     requirements |->
        [i \in 1..Len(self.requirements) |-> DumpRequirement(self.requirements[i])]]

ValidateAssistant(j) ==
    [name |-> StrOf(j.name), role |-> StrOf(j.role),
     instructions |-> StrOf(j.instructions),
     tools |-> IF Has(j, "tools") THEN StrListOf(j.tools) ELSE <<>>]

ValidateRequirement(j) ==
    [title |-> StrOf(j.title), description |-> StrOf(j.description)]

ValidateTask(j) ==
    [title |-> StrOf(j.title), instructions |-> StrOf(j.instructions),
     assigned_to |-> ValidateAssistant(j.assigned_to),
     done |-> IF Has(j, "done") THEN BoolOf(j.done) ELSE FALSE,
     depends_on |-> IF Has(j, "depends_on") THEN StrListOf(j.depends_on) ELSE <<>>,
     functions |-> IF Has(j, "functions") THEN StrListOf(j.functions) ELSE <<>>]

ValidateAssistants(j) == [i \in 1..Len(j) |-> ValidateAssistant(j[i])]

ValidateTasks(j) == [i \in 1..Len(j) |-> ValidateTask(j[i])]

ValidateRequirements(j) == [i \in 1..Len(j) |-> ValidateRequirement(j[i])]

\* Project.load: cls.model_validate(json.load(file)).
load(file) ==
    [reference |-> StrOf(file.reference), goals |-> StrListOf(file.goals),
     assistants |-> ValidateAssistants(file.assistants),
     tasks |-> ValidateTasks(file.tasks),
     requirements |-> IF Has(file, "requirements")
                      THEN ValidateRequirements(file.requirements) ELSE <<>>]

----------------------------------------------------------------------------
(* Agent directory: get_assistant_list, get_openai_assistant,              *)
(* update_or_create_assistant. A directory is the remote listing, newest   *)
(* identity first; an identity is [id, name, description, instructions].   *)

\* Project.get_assistant_list: the remote listing.
get_assistant_list(dir) == dir

\* Mutant of get_openai_assistant: the listing is never matched.
get_openai_assistant_never(self, dir, assistant) == <<>>

\* Project.get_openai_assistant: the first listed identity with the
\* generated name, or None (<<>>).
get_openai_assistant(self, dir, assistant) ==
    LET name == generate_assistant_name(self, assistant)
        listing == get_assistant_list(dir)
        hits == {i \in 1..Len(listing) : listing[i].name = name}
    IN  IF hits = {} THEN <<>>
        ELSE <<listing[CHOOSE i \in hits : \A j \in hits : i <= j]>>

\* Mutant of RemoteUpdate: the first listed identity takes the params.
RemoteUpdateFirst(dir, id, params) ==
    [i \in 1..Len(dir) |->
        IF i = 1
        THEN [id |-> dir[i].id, name |-> params.name,
              description |-> params.description,
              instructions |-> params.instructions]
        ELSE dir[i]]

\* client.beta.assistants.update(id, **params): the identity with that id
\* takes the params and keeps its id and its place.
RemoteUpdate(dir, id, params) ==
    [i \in 1..Len(dir) |->
        IF dir[i].id = id
        THEN [id |-> id, name |-> params.name,
              description |-> params.description,
              instructions |-> params.instructions]
        ELSE dir[i]]

\* client.beta.assistants.create(**params): a new identity with a fresh id.
RemoteCreate(dir, nid, params) ==
    <<[id |-> nid, name |-> params.name, description |-> params.description,
       instructions |-> params.instructions]>> \o dir

\* Project.update_or_create_assistant: the directory and the next free id
\* after the call.
update_or_create_assistant(self, dir, nid, assistant) ==
    LET params == AssistantParams(self, assistant)
        found == get_openai_assistant(self, dir, assistant)
    IN  IF found # <<>>
        THEN [directory |-> RemoteUpdate(dir, found[1].id, params),
              next_id |-> nid]
        ELSE [directory |-> RemoteCreate(dir, nid, params),
              next_id |-> nid + 1]

----------------------------------------------------------------------------
(* Scheduler helpers: the title dict of line 73 and the readiness test of  *)
(* line 79.                                                                *)

\* dict((task.title, task) for task in self.tasks): keys in the order of
\* their first occurrence, each bound to the LAST task carrying that title.
BuildDict(ts) ==
    LET firsts == {i \in 1..Len(ts) : \A j \in 1..(i - 1) : ts[j].title # ts[i].title}
        last(t) == CHOOSE i \in 1..Len(ts) :
                      /\ ts[i].title = t
                      /\ \A j \in (i + 1)..Len(ts) : ts[j].title # t
        F[n \in 0..Len(ts)] ==
            IF n = 0 THEN <<>>
            ELSE IF n \in firsts
                 THEN Append(F[n - 1], [key |-> ts[n].title, ref |-> last(ts[n].title)])
                 ELSE F[n - 1]
    IN  F[Len(ts)]

DictHas(d, title) == \E i \in 1..Len(d) : d[i].key = title

\* tasks[title]: the index in self.tasks of the task the dict binds.
DictGet(d, title) == d[CHOOSE i \in 1..Len(d) : d[i].key = title].ref

\* Mutant of ReadyCheck: the done flags of the dependencies are not read.
ReadyCheckIgnoresDone(d, ts, deps) ==
    IF \E i \in 1..Len(deps) : ~DictHas(d, deps[i]) THEN "KeyError" ELSE "True"

\* all(tasks[depend_on].done for depend_on in task.depends_on), evaluated
\* left to right and stopping at the first False: "KeyError" when a title
\* that is looked up is no key of the dict.
RECURSIVE ReadyCheck(_, _, _)
ReadyCheck(d, ts, deps) ==
    IF deps = <<>> THEN "True"
    ELSE IF ~DictHas(d, Head(deps)) THEN "KeyError"
    ELSE IF ~ts[DictGet(d, Head(deps))].done THEN "False"
    ELSE ReadyCheck(d, ts, Tail(deps))

\* Project.generate_tool_schemas: getattr for every name, then a schema of
\* every function: "ok", or the exception raised.
generate_tool_schemas(functions) ==
    IF \E i \in 1..Len(functions) : functions[i] \notin ModuleAttrs
    THEN "AttributeError"
    ELSE IF \E i \in 1..Len(functions) : functions[i] \notin ModuleCallables
    THEN "TypeError"
    ELSE "ok"

----------------------------------------------------------------------------
(* Inputs: the projects, directories and environments execute starts from. *)

AllTitles == <<"A", "B", "C", "D">>

\* The titles of the project's tasks, and a title no task carries.
Titles == {AllTitles[i] : i \in 1..MaxTasks}

MissingTitle == "X"

A1 == Assistant(<<"n">>, <<"r">>)

\* Assistants whose (name, role) pairs format to overlapping identity names.
AssistantSet ==
    {Assistant(n, r) : n \in {<<"n">>, <<"n", "-", "r">>},
                       r \in {<<"r">>, <<"r", "-", "r">>}}

\* depends_on lists: none, one title, or two different titles in either order.
DepLists ==
    LET D == Titles \cup {MissingTitle}
    IN  {<<>>} \cup {<<a>> : a \in D} \cup {d \in D \X D : d[1] # d[2]}

ShortDepLists == {<<>>} \cup {<<t>> : t \in Titles}

\* Task lists with pairwise distinct titles and any dependency lists.
GraphTaskLists ==
    UNION {{[i \in 1..n |-> Task(AllTitles[i], A1, FALSE, deps[i], <<>>)] :
               deps \in [1..n -> DepLists]} : n \in 0..MaxTasks}

\* Task lists in which titles may repeat.
RepeatedTitleTaskLists ==
    UNION {{[i \in 1..n |-> Task(ts[i], A1, FALSE, deps[i], <<>>)] :
               ts \in [1..n -> Titles], deps \in [1..n -> ShortDepLists]} :
           n \in 1..MaxTasks}

\* Task lists of a project that is executed again: some tasks already done.
ResumedTaskLists ==
    UNION {{[i \in 1..n |-> Task(AllTitles[i], A1, flags[i], deps[i], <<>>)] :
               flags \in [1..n -> BOOLEAN], deps \in [1..n -> ShortDepLists]} :
           n \in 1..MaxTasks}

\* Three tasks A, B, C, each with no or one dependency among them: the
\* declared order need not be a topological order.
OrderTaskLists ==
    LET T == {"A", "B", "C"}
        D == {<<>>} \cup {<<t>> : t \in T}
    IN  {<<Task("A", A1, FALSE, a, <<>>), Task("B", A1, FALSE, b, <<>>),
           Task("C", A1, FALSE, c, <<>>)>> : a \in D, b \in D, c \in D}

FunctionLists ==
    {<<>>, <<"page_metadata">>, <<"MAX_IMAGE_SIZE">>, <<"delete_files">>}

\* A then B (B depends on A), the first with any tool list.
BridgeTaskLists ==
    {<<Task("A", A1, FALSE, <<>>, fs), Task("B", A1, FALSE, <<"A">>, <<>>)>> :
        fs \in FunctionLists}

\* One task, assigned to any assistant (in self.assistants or not).
AssigneeTaskLists == {<<Task("A", a, FALSE, <<>>, <<>>)>> : a \in AssistantSet}

AssistantLists == SeqsUpTo(AssistantSet, MaxAssistants)

\* Projects of a project file: A (done or not, with or without a tool)
\* then B depending on A, with or without a missing requirement.
SavedProjects ==
    {[Project(<<"p">>, <<A1>>,
              <<Task("A", A1, d, <<>>, fs), Task("B", A1, FALSE, <<"A">>, <<>>)>>)
         EXCEPT !.requirements = reqs] :
        d \in BOOLEAN, fs \in {<<>>, <<"page_metadata">>},
        reqs \in {<<>>, <<Requirement("browser")>>}}

\* Identities left in the remote directory by earlier executions: one of
\* this project (with outdated parameters), one of another project.
OwnIdentity ==
    [id |-> 1, name |-> generate_assistant_name([reference |-> <<"p">>], A1),
     description |-> <<"old">>, instructions |-> <<"old">>]

OtherIdentity ==
    [id |-> 2, name |-> generate_assistant_name([reference |-> <<"q">>], A1),
     description |-> <<"other">>, instructions |-> <<"other">>]

InitialDirectories ==
    {<<>>, <<OwnIdentity>>, <<OtherIdentity>>, <<OtherIdentity, OwnIdentity>>}

FirstFreeId == OtherIdentity.id + 1

NoRun == [status |-> "none", tool_calls |-> <<>>, assistant_id |-> 0, tools |-> <<>>]

\* The state at the entry of execute for one project, directory, environment.
Start(p, dir, e) ==
    /\ project = p
    /\ saved = p
    /\ directory = dir
    /\ next_id = FirstFreeId
    /\ env = e
    /\ thread = <<>>
    /\ pc = "reconcile"
    /\ error = "none"
    /\ a_pos = 1
    /\ done_count = 0
    /\ tasks = <<>>
    /\ pos = 0
    /\ task = 0
    /\ openai_assistant = <<>>
    /\ run = NoRun
    /\ k = 0
    /\ tool_outputs = <<>>
    /\ steps = <<>>
    /\ invoked = <<>>
    /\ submitted = <<>>
    /\ response = <<>>
    /\ executed = <<>>
    /\ reconciled = {}
    /\ scan_base = 0

\* The remote service raises no tool round and every run completes with a reply.
Quiet == [rounds |-> 0, reruns |-> 0, moody |-> FALSE]

Init ==
    \/ \E ts \in GraphTaskLists \cup RepeatedTitleTaskLists \cup ResumedTaskLists
                    \cup OrderTaskLists :
          Start(Project(<<"p">>, <<A1>>, ts), <<>>, Quiet)
    \/ \E ts \in BridgeTaskLists :
          Start(Project(<<"p">>, <<A1>>, ts), <<>>,
                [rounds |-> MaxRounds, reruns |-> 0, moody |-> TRUE])
    \/ \E as \in AssistantLists, ts \in AssigneeTaskLists,
          dir \in InitialDirectories, r \in 0..MaxReruns :
          Start(Project(<<"p">>, as, ts), dir,
                [rounds |-> 0, reruns |-> r, moody |-> FALSE])
    \/ \E p \in SavedProjects, r \in 1..MaxReruns :
          Start(p, <<>>, [rounds |-> 0, reruns |-> r, moody |-> FALSE])

----------------------------------------------------------------------------
(* Project.execute, one action per step. An exception is never caught:     *)
(* it ends execute in pc = "fatal" with the exception's name in error.     *)

\* Mutant of Raise: the exception is caught and the step is taken again.
RaiseCaught(e) == pc' = pc /\ error' = e

Raise(e) == pc' = "fatal" /\ error' = e

Step(name) == Append(steps, name)

UserMessage(t) == [role |-> "user", content |-> project.tasks[t].instructions]

AssistantMessage(t) == [role |-> "assistant", content |-> <<"reply", t>>]

\* Lines 63-68: one iteration of the loop over self.assistants.
ReconcileAssistant ==
    /\ pc = "reconcile"
    /\ a_pos <= Len(project.assistants)
    /\ LET assistant == project.assistants[a_pos]
           r == update_or_create_assistant(project, directory, next_id, assistant)
       IN  /\ directory' = r.directory
           /\ next_id' = r.next_id
           /\ reconciled' = reconciled \cup {generate_assistant_name(project, assistant)}
    /\ a_pos' = a_pos + 1
    /\ UNCHANGED <<project, saved, thread, pc, error, done_count, tasks, pos,
                   task, openai_assistant, run, k, tool_outputs, env, steps,
                   invoked, submitted, response, executed, scan_base>>

\* Lines 70-73: the thread is created, done_count = 0, the dict is built.
CreateThread ==
    /\ pc = "reconcile"
    /\ a_pos > Len(project.assistants)
    /\ thread' = <<>>
    /\ done_count' = 0
    /\ tasks' = BuildDict(project.tasks)
    /\ pc' = "while"
    /\ UNCHANGED <<project, saved, directory, next_id, error, a_pos, pos, task,
                   openai_assistant, run, k, tool_outputs, env, steps, invoked,
                   submitted, response, executed, reconciled, scan_base>>

\* Line 75, condition true: a scan over tasks.values() begins.
BeginScan ==
    /\ pc = "while"
    /\ done_count < Len(tasks)
    /\ pc' = "for"
    /\ pos' = 1
    /\ scan_base' = done_count
    /\ UNCHANGED <<project, saved, directory, next_id, thread, error, a_pos,
                   done_count, tasks, task, openai_assistant, run, k,
                   tool_outputs, env, steps, invoked, submitted, response,
                   executed, reconciled>>

\* Line 75, condition false: execute returns.
Return ==
    /\ pc = "while"
    /\ ~(done_count < Len(tasks))
    /\ pc' = "returned"
    /\ UNCHANGED <<project, saved, directory, next_id, thread, error, a_pos,
                   done_count, tasks, pos, task, openai_assistant, run, k,
                   tool_outputs, env, steps, invoked, submitted, response,
                   executed, reconciled, scan_base>>

\* Line 76: the scan is exhausted, back to the while condition.
EndScan ==
    /\ pc = "for"
    /\ pos > Len(tasks)
    /\ pc' = "while"
    /\ UNCHANGED <<project, saved, directory, next_id, thread, error, a_pos,
                   done_count, tasks, pos, task, openai_assistant, run, k,
                   tool_outputs, env, steps, invoked, submitted, response,
                   executed, reconciled, scan_base>>

\* The task the scan is at.
Current == tasks[pos].ref

Readiness == ReadyCheck(tasks, project.tasks, project.tasks[Current].depends_on)

\* Lines 77-78: a done task is skipped.
SkipDone ==
    /\ pc = "for"
    /\ pos <= Len(tasks)
    /\ project.tasks[Current].done
    /\ pos' = pos + 1
    /\ UNCHANGED <<project, saved, directory, next_id, thread, pc, error, a_pos,
                   done_count, tasks, task, openai_assistant, run, k,
                   tool_outputs, env, steps, invoked, submitted, response,
                   executed, reconciled, scan_base>>

\* Line 79, all(...) is False: the task is passed over in this scan.
NotReady ==
    /\ pc = "for"
    /\ pos <= Len(tasks)
    /\ ~project.tasks[Current].done
    /\ Readiness = "False"
    /\ pos' = pos + 1
    /\ UNCHANGED <<project, saved, directory, next_id, thread, pc, error, a_pos,
                   done_count, tasks, task, openai_assistant, run, k,
                   tool_outputs, env, steps, invoked, submitted, response,
                   executed, reconciled, scan_base>>

\* Line 79, tasks[depend_on] raises KeyError.
UndefinedDependency ==
    /\ pc = "for"
    /\ pos <= Len(tasks)
    /\ ~project.tasks[Current].done
    /\ Readiness = "KeyError"
    /\ Raise("KeyError")
    /\ UNCHANGED <<project, saved, directory, next_id, thread, a_pos,
                   done_count, tasks, pos, task, openai_assistant, run, k,
                   tool_outputs, env, steps, invoked, submitted, response,
                   executed, reconciled, scan_base>>

\* Lines 79-80, all(...) is True: the task is taken up.
StartTask ==
    /\ pc = "for"
    /\ pos <= Len(tasks)
    /\ ~project.tasks[Current].done
    /\ Readiness = "True"
    /\ task' = Current
    /\ pc' = "post"
    /\ steps' = <<>>
    /\ response' = <<>>
    /\ invoked' = <<>>
    /\ submitted' = <<>>
    /\ UNCHANGED <<project, saved, directory, next_id, thread, error, a_pos,
                   done_count, tasks, pos, openai_assistant, run, k,
                   tool_outputs, env, executed, reconciled, scan_base>>

\* Lines 82-86: the instructions are posted as a user message.
PostInstructions ==
    /\ pc = "post"
    /\ thread' = Append(thread, UserMessage(task))
    /\ steps' = Step("post")
    /\ pc' = "lookup"
    /\ UNCHANGED <<project, saved, directory, next_id, error, a_pos, done_count,
                   tasks, pos, task, openai_assistant, run, k, tool_outputs,
                   env, invoked, submitted, response, executed, reconciled,
                   scan_base>>

\* Line 88: the identity of task.assigned_to is looked up in the listing.
LookupAssistant ==
    /\ pc = "lookup"
    /\ openai_assistant' =
          get_openai_assistant(project, directory, project.tasks[task].assigned_to)
    /\ pc' = "run"
    /\ UNCHANGED <<project, saved, directory, next_id, thread, error, a_pos,
                   done_count, tasks, pos, task, run, k, tool_outputs, env,
                   steps, invoked, submitted, response, executed, reconciled,
                   scan_base>>

----------------------------------------------------------------------------
(* The remote run and the tool-call bridge (lines 90-121).                 *)

\* The batches run.required_action.submit_tool_outputs.tool_calls can hold.
Batches ==
    UNION {{[i \in 1..n |-> [id |-> i, name |-> names[i]]] :
               names \in [1..n -> RequestedNames]} : n \in 1..MaxCalls}

\* What polling can return in environment e: a run that completed and
\* replied on the thread; where the service is moody, also a run that
\* failed or left no message; while tool rounds are left, a run that
\* requires tool outputs.
RunOutcomes(e) ==
    {[status |-> "completed", tool_calls |-> <<>>, reply |-> TRUE]}
    \cup (IF e.moody
          THEN [status : {"completed", "failed"}, tool_calls : {<<>>}, reply : BOOLEAN]
          ELSE {})
    \cup (IF e.rounds > 0
          THEN [status : {"requires_action"}, tool_calls : Batches, reply : {FALSE}]
          ELSE {})

\* Mutant of AfterPoll: the bridge loop is never entered.
AfterPollNoBridge(status) == "list"

\* Line 96: the bridge loop runs while the run requires action.
AfterPoll(status) == IF status = "requires_action" THEN "bridge" ELSE "list"

\* Lines 90 and 117, the polling half of create_and_poll and of
\* submit_tool_outputs_and_poll: the run stops, ended or requiring action
\* (line 97 then starts an empty tool_outputs). Once the loop of line 96
\* is left, the locals tool_outputs and tool_call are never read again
\* before line 97 rebinds them: they are dropped here.
PollRun ==
    /\ pc = "poll"
    /\ \E o \in RunOutcomes(env) :
          /\ run' = [run EXCEPT !.status = o.status, !.tool_calls = o.tool_calls]
          /\ thread' = IF o.reply THEN Append(thread, AssistantMessage(task)) ELSE thread
          /\ pc' = AfterPoll(o.status)
          /\ IF o.status = "requires_action"
             THEN /\ env' = [env EXCEPT !.rounds = @ - 1]
                  /\ k' = 1
                  /\ tool_outputs' = <<>>
                  /\ invoked' = <<>>
                  /\ submitted' = <<>>
             ELSE /\ k' = 0
                  /\ tool_outputs' = <<>>
                  /\ UNCHANGED <<env, invoked, submitted>>
    /\ UNCHANGED <<project, saved, directory, next_id, error, a_pos, done_count,
                   tasks, pos, task, openai_assistant, steps, response,
                   executed, reconciled, scan_base>>

\* Lines 90-94, openai_assistant is None: .id raises AttributeError.
RunWithoutIdentity ==
    /\ pc = "run"
    /\ openai_assistant = <<>>
    /\ Raise("AttributeError")
    /\ UNCHANGED <<project, saved, directory, next_id, thread, a_pos,
                   done_count, tasks, pos, task, openai_assistant, run, k,
                   tool_outputs, env, steps, invoked, submitted, response,
                   executed, reconciled, scan_base>>

\* Lines 93, 141-144: generate_tool_schemas raises.
ToolSchemaFails ==
    /\ pc = "run"
    /\ openai_assistant # <<>>
    /\ generate_tool_schemas(project.tasks[task].functions) # "ok"
    /\ Raise(generate_tool_schemas(project.tasks[task].functions))
    /\ UNCHANGED <<project, saved, directory, next_id, thread, a_pos,
                   done_count, tasks, pos, task, openai_assistant, run, k,
                   tool_outputs, env, steps, invoked, submitted, response,
                   executed, reconciled, scan_base>>

\* Lines 90-94, the creating half of create_and_poll: the run is started
\* for the identity found, with the schemas of task.functions.
CreateRun ==
    /\ pc = "run"
    /\ openai_assistant # <<>>
    /\ generate_tool_schemas(project.tasks[task].functions) = "ok"
    /\ run' = [status |-> "queued", tool_calls |-> <<>>,
               assistant_id |-> openai_assistant[1].id,
               tools |-> project.tasks[task].functions]
    /\ steps' = Step("run")
    /\ pc' = "poll"
    /\ UNCHANGED <<project, saved, directory, next_id, thread, error, a_pos,
                   done_count, tasks, pos, task, openai_assistant, k,
                   tool_outputs, env, invoked, submitted, response, executed,
                   reconciled, scan_base>>

\* Mutant of Call: the batch is walked from its end.
CallBackwards == run.tool_calls[Len(run.tool_calls) + 1 - k]

\* The tool call the bridge is at.
Call == run.tool_calls[k]

\* Mutant of Collect: the list is started anew for every call.
CollectAnew(outputs, call) ==
    <<[tool_call_id |-> call.id, output |-> <<"json", call.name>>]>>

\* Lines 110-115: the output is collected under the call's id.
Collect(outputs, call) ==
    Append(outputs, [tool_call_id |-> call.id, output |-> <<"json", call.name>>])

\* Lines 101-103: getattr finds no such attribute.
UnknownTool ==
    /\ pc = "bridge"
    /\ k <= Len(run.tool_calls)
    /\ Call.name \notin ModuleAttrs
    /\ Raise("AttributeError")
    /\ UNCHANGED <<project, saved, directory, next_id, thread, a_pos,
                   done_count, tasks, pos, task, openai_assistant, run, k,
                   tool_outputs, env, steps, invoked, submitted, response,
                   executed, reconciled, scan_base>>

\* Line 104: json.loads rejects the arguments.
BadArguments ==
    /\ pc = "bridge"
    /\ k <= Len(run.tool_calls)
    /\ Call.name \in ModuleAttrs
    /\ Raise("JSONDecodeError")
    /\ UNCHANGED <<project, saved, directory, next_id, thread, a_pos,
                   done_count, tasks, pos, task, openai_assistant, run, k,
                   tool_outputs, env, steps, invoked, submitted, response,
                   executed, reconciled, scan_base>>

\* Line 109: the attribute found is not callable.
NotCallable ==
    /\ pc = "bridge"
    /\ k <= Len(run.tool_calls)
    /\ Call.name \in ModuleAttrs \ ModuleCallables
    /\ Raise("TypeError")
    /\ UNCHANGED <<project, saved, directory, next_id, thread, a_pos,
                   done_count, tasks, pos, task, openai_assistant, run, k,
                   tool_outputs, env, steps, invoked, submitted, response,
                   executed, reconciled, scan_base>>

\* Line 109: the function is invoked and raises.
ToolRaises ==
    /\ pc = "bridge"
    /\ k <= Len(run.tool_calls)
    /\ Call.name \in ModuleCallables
    /\ invoked' = Append(invoked, Call.name)
    /\ steps' = Step("invoke")
    /\ Raise("ToolError")
    /\ UNCHANGED <<project, saved, directory, next_id, thread, a_pos,
                   done_count, tasks, pos, task, openai_assistant, run, k,
                   tool_outputs, env, submitted, response, executed,
                   reconciled, scan_base>>

\* Lines 101-115: the function is invoked and its output collected.
ToolCall ==
    /\ pc = "bridge"
    /\ k <= Len(run.tool_calls)
    /\ Call.name \in ModuleCallables
    /\ invoked' = Append(invoked, Call.name)
    /\ steps' = Step("invoke")
    /\ tool_outputs' = Collect(tool_outputs, Call)
    /\ k' = k + 1
    /\ UNCHANGED <<project, saved, directory, next_id, thread, pc, error, a_pos,
                   done_count, tasks, pos, task, openai_assistant, run, env,
                   submitted, response, executed, reconciled, scan_base>>

\* Lines 117-121, the submitting half of submit_tool_outputs_and_poll: the
\* collected outputs go to the run, which runs on.
SubmitToolOutputs ==
    /\ pc = "bridge"
    /\ k > Len(run.tool_calls)
    /\ submitted' = <<[pending |-> run.tool_calls, outputs |-> tool_outputs]>>
    /\ run' = [run EXCEPT !.status = "queued"]
    /\ steps' = Step("submit")
    /\ pc' = "poll"
    /\ UNCHANGED <<project, saved, directory, next_id, thread, error, a_pos,
                   done_count, tasks, pos, task, openai_assistant, k,
                   tool_outputs, env, invoked, response, executed, reconciled,
                   scan_base>>

----------------------------------------------------------------------------
(* The end of a task (lines 123-139).                                      *)

\* Lines 123-129: messages[0] of the listing, which is newest first.
MostRecentMessage == thread[Len(thread)]

\* Mutant of Surfaced: the most recent message is printed whoever wrote it.
SurfacedAlways(message) == <<message>>

\* Lines 131-134: only an assistant's message is printed as the response.
Surfaced(message) == IF message.role = "assistant" THEN <<message>> ELSE <<>>

\* Lines 123-134: the thread is listed and the response printed.
ListMessages ==
    /\ pc = "list"
    /\ IF thread = <<>>
       THEN Raise("IndexError") /\ UNCHANGED <<response, steps>>
       ELSE /\ response' = Surfaced(MostRecentMessage)
            /\ steps' = Step("read")
            /\ pc' = "input"
            /\ UNCHANGED error
    /\ UNCHANGED <<project, saved, directory, next_id, thread, a_pos,
                   done_count, tasks, pos, task, openai_assistant, run, k,
                   tool_outputs, env, invoked, submitted, executed, reconciled,
                   scan_base>>

\* Line 136: input("> ") returns: the operator answered.
OperatorAnswers ==
    /\ pc = "input"
    /\ steps' = Step("prompt")
    /\ pc' = "mark"
    /\ UNCHANGED <<project, saved, directory, next_id, thread, error, a_pos,
                   done_count, tasks, pos, task, openai_assistant, run, k,
                   tool_outputs, env, invoked, submitted, response, executed,
                   reconciled, scan_base>>

\* Line 136: input("> ") raises EOFError: the operator closed the input.
OperatorLeaves ==
    /\ pc = "input"
    /\ Raise("EOFError")
    /\ UNCHANGED <<project, saved, directory, next_id, thread, a_pos,
                   done_count, tasks, pos, task, openai_assistant, run, k,
                   tool_outputs, env, steps, invoked, submitted, response,
                   executed, reconciled, scan_base>>

\* Mutant of Counted: the increment of line 139 is forgotten.
CountedNot(n) == n

\* Line 139: done_count += 1.
Counted(n) == n + 1

\* Mutant of Done: the other tasks are set back to not done.
DoneAlone(self, t) ==
    [self EXCEPT !.tasks = [i \in 1..Len(self.tasks) |->
                               [self.tasks[i] EXCEPT !.done = (i = t)]]]

\* Line 138: task.done = True.
Done(self, t) == [self EXCEPT !.tasks[t].done = TRUE]

\* Lines 138-139: task.done = True, done_count += 1; the scan goes on.
MarkDone ==
    /\ pc = "mark"
    /\ project' = Done(project, task)
    /\ done_count' = Counted(done_count)
    /\ executed' = Append(executed, task)
    /\ steps' = Step("done")
    /\ pos' = pos + 1
    /\ pc' = "for"
    /\ UNCHANGED <<saved, directory, next_id, thread, error, a_pos, tasks, task,
                   openai_assistant, run, k, tool_outputs, env, invoked,
                   submitted, response, reconciled, scan_base>>

\* A remote call (list, create, update, thread create, message create,
\* run create/poll, submit, message list) fails: the error propagates.
RemoteCallFails ==
    /\ \/ pc \in {"reconcile", "post", "lookup", "poll", "list"}
       \/ pc = "run" /\ openai_assistant # <<>>
                     /\ generate_tool_schemas(project.tasks[task].functions) = "ok"
       \/ pc = "bridge" /\ k > Len(run.tool_calls)
    /\ Raise("RemoteError")
    /\ UNCHANGED <<project, saved, directory, next_id, thread, a_pos,
                   done_count, tasks, pos, task, openai_assistant, run, k,
                   tool_outputs, env, steps, invoked, submitted, response,
                   executed, reconciled, scan_base>>

\* __main__.main in a new process: the project file, which holds what save
\* wrote of the project, is loaded and executed again against the same
\* remote directory.
ExecuteAgain ==
    /\ pc \in {"returned", "fatal"}
    /\ env.reruns > 0
    /\ project' = load(save(saved))
    /\ env' = [env EXCEPT !.reruns = @ - 1]
    /\ thread' = <<>>
    /\ pc' = "reconcile"
    /\ error' = "none"
    /\ a_pos' = 1
    /\ done_count' = 0
    /\ tasks' = <<>>
    /\ pos' = 0
    /\ task' = 0
    /\ openai_assistant' = <<>>
    /\ run' = NoRun
    /\ k' = 0
    /\ tool_outputs' = <<>>
    /\ steps' = <<>>
    /\ invoked' = <<>>
    /\ submitted' = <<>>
    /\ response' = <<>>
    /\ executed' = <<>>
    /\ reconciled' = {}
    /\ scan_base' = 0
    /\ UNCHANGED <<saved, directory, next_id>>

Next ==
    \/ ReconcileAssistant
    \/ CreateThread
    \/ BeginScan
    \/ Return
    \/ EndScan
    \/ SkipDone
    \/ NotReady
    \/ UndefinedDependency
    \/ StartTask
    \/ PostInstructions
    \/ LookupAssistant
    \/ RunWithoutIdentity
    \/ ToolSchemaFails
    \/ CreateRun
    \/ PollRun
    \/ UnknownTool
    \/ BadArguments
    \/ NotCallable
    \/ ToolRaises
    \/ ToolCall
    \/ SubmitToolOutputs
    \/ ListMessages
    \/ OperatorAnswers
    \/ OperatorLeaves
    \/ MarkDone
    \/ RemoteCallFails
    \/ ExecuteAgain

Spec == Init /\ [][Next]_vars

\* execute is sequential code: a step that can be taken is taken.
FairSpec == Spec /\ WF_vars(Next)

----------------------------------------------------------------------------
(* Vocabulary of the properties. The project as execute received it is     *)
(* saved; titles and depends_on never change.                              *)

TaskIds == 1..Len(saved.tasks)

TitlesOf(ts) == {ts[i].title : i \in 1..Len(ts)}

UniqueTitles(ts) == \A i, j \in 1..Len(ts) : i # j => ts[i].title # ts[j].title

Fresh(ts) == \A i \in 1..Len(ts) : ~ts[i].done

NoDangling(ts) == \A i \in 1..Len(ts) : Range(ts[i].depends_on) \subseteq TitlesOf(ts)

Edge(ts, a, b) == \E i \in 1..Len(ts) : ts[i].title = a /\ b \in Range(ts[i].depends_on)

RECURSIVE ReachIn(_, _, _, _)
ReachIn(ts, a, b, n) ==
    /\ n > 0
    /\ \/ Edge(ts, a, b)
       \/ \E c \in TitlesOf(ts) : Edge(ts, a, c) /\ ReachIn(ts, c, b, n - 1)

HasCycle(ts) == \E t \in TitlesOf(ts) : ReachIn(ts, t, t, Len(ts))

AllDone == \A i \in 1..Len(project.tasks) : project.tasks[i].done

\* A task has been taken up and is not yet marked done.
InFlight == pc \in {"post", "lookup", "run", "poll", "bridge", "list", "input", "mark"}

Last(s) == s[Len(s)]

----------------------------------------------------------------------------
(* Scheduler properties.                                                   *)

\* The project respects the data model: titles are unique keys, every
\* assigned_to is one of self.assistants, every name in functions resolves.
WellFormed(p) ==
    /\ UniqueTitles(p.tasks)
    /\ \A i \in 1..Len(p.tasks) :
          /\ p.tasks[i].assigned_to \in Range(p.assistants)
          /\ generate_tool_schemas(p.tasks[i].functions) = "ok"

WellFormedAcyclic ==
    /\ WellFormed(saved)
    /\ Fresh(saved.tasks)
    /\ NoDangling(saved.tasks)
    /\ ~HasCycle(saved.tasks)

\* The exceptions of a failing call: a remote call, a requested tool (not
\* found, not callable, bad arguments, raising) or the operator prompt.
CallErrors ==
    {"RemoteError", "AttributeError", "TypeError", "JSONDecodeError",
     "ToolError", "EOFError"}

\* C1: for a well-formed project whose depends_on graph is acyclic and names
\* only tasks of the project, all tasks initially not done, every execution
\* in which no call raises reaches the return of execute, and execute
\* returns only with every task done. (An execution in which a remote
\* call, a tool call or the operator prompt raises ends in "fatal"; the
\* scheduler itself raises nothing.)
C1_AcyclicTerminatesAllDone ==
    WellFormedAcyclic =>
        /\ <>(pc = "returned" \/ (pc = "fatal" /\ error \in CallErrors))
        /\ [](pc = "returned" => AllDone)
        /\ [](pc = "fatal" => error \in CallErrors)

C1_Witness ==
    /\ WellFormedAcyclic
    /\ Len(saved.tasks) = MaxTasks
    /\ saved.tasks[1].depends_on = <<"B">>
    /\ pc = "returned"
    /\ AllDone

\* C2: while a task is in flight (from the posting of its instructions to
\* its marking), every task named in its depends_on exists and is done;
\* and the tasks are completed in an order in which each comes after all
\* the tasks it depends on that were not done at the start.
C2_StartedOnlyAfterDependencies ==
    UniqueTitles(saved.tasks) =>
        /\ InFlight =>
              \A d \in Range(project.tasks[task].depends_on) :
                 \E j \in TaskIds : /\ project.tasks[j].title = d
                                    /\ project.tasks[j].done
        /\ \A n \in 1..Len(executed) :
              \A d \in Range(saved.tasks[executed[n]].depends_on) :
                 \E j \in TaskIds :
                    /\ saved.tasks[j].title = d
                    /\ \/ saved.tasks[j].done
                       \/ \E m \in 1..(n - 1) : executed[m] = j

\* B is declared first and depends on A: A was executed first, B is in flight.
C2_Witness ==
    /\ UniqueTitles(saved.tasks)
    /\ Fresh(saved.tasks)
    /\ Len(saved.tasks) = MaxTasks
    /\ saved.tasks[1].depends_on = <<"B">>
    /\ saved.tasks[2].depends_on = <<>>
    /\ pc = "run"
    /\ task = 1
    /\ executed = <<2>>

\* C3 (as claimed): a project whose depends_on graph has a cycle ends in a
\* fatal error.
C3_CycleEndsFatal ==
    (UniqueTitles(saved.tasks) /\ Fresh(saved.tasks) /\ HasCycle(saved.tasks))
        => <>(pc = "fatal")

\* Some task that is not done names a title that no task carries.
HasDangling(ts) ==
    \E i \in 1..Len(ts) :
        ~ts[i].done /\ ~(Range(ts[i].depends_on) \subseteq TitlesOf(ts))

\* C4 (as claimed): a project in which a not-done task depends on a title
\* of no task ends in a fatal error, wherever the title stands in the list.
C4_DanglingEndsFatal ==
    (UniqueTitles(saved.tasks) /\ HasDangling(saved.tasks)) => <>(pc = "fatal")

\* C5 (as claimed): when execute returns, every task of project.tasks is
\* done, for every task list (titles may repeat).
C5_ReturnedImpliesAllDone == pc = "returned" => AllDone

----------------------------------------------------------------------------
(* Agent directory properties.                                             *)

NamesOf(dir) == {dir[i].name : i \in 1..Len(dir)}

IdNames(dir) == {<<dir[i].id, dir[i].name>> : i \in 1..Len(dir)}

Named(dir, n) == {i \in 1..Len(dir) : dir[i].name = n}

\* The name the loop over self.assistants is at.
ReconciledName == generate_assistant_name(project, project.assistants[a_pos])

\* C6: the directory, which starts with at most one identity per name,
\* always holds at most one identity per name and exactly one for every
\* name reconciled; a reconciliation of a name that is absent creates one
\* identity, a reconciliation of a name that is present keeps every (id,
\* name) pair, creates nothing, and leaves the identity with the new
\* parameters; this across executions against the same directory.
C6_ReconcileIdempotent ==
    /\ [](/\ \A n \in NamesOf(directory) : Cardinality(Named(directory, n)) = 1
          /\ \A n \in reconciled : Cardinality(Named(directory, n)) = 1)
    /\ [][(pc = "reconcile" /\ a_pos' = a_pos + 1) =>
             /\ IF ReconciledName \in NamesOf(directory)
                THEN /\ IdNames(directory') = IdNames(directory)
                     /\ Len(directory') = Len(directory)
                ELSE /\ Len(directory') = Len(directory) + 1
                     /\ IdNames(directory') =
                           IdNames(directory) \cup {<<next_id, ReconciledName>>}
                     /\ \A i \in 1..Len(directory) : directory[i].id # next_id
             /\ \A i \in Named(directory', ReconciledName) :
                   directory'[i].instructions =
                      AssistantParams(project, project.assistants[a_pos]).instructions
          ]_vars

\* The same assistant is listed twice: the first call created identity
\* FirstFreeId, the second call updated it.
C6_Witness ==
    /\ Len(project.assistants) = 2
    /\ project.assistants[1] = project.assistants[2]
    /\ pc = "reconcile"
    /\ a_pos = 3
    /\ Len(directory) = 1
    /\ directory[1].id = FirstFreeId
    /\ next_id = FirstFreeId + 1

----------------------------------------------------------------------------
(* Tool-call bridge properties.                                            *)

\* C7: every submitted batch holds exactly one output per pending tool
\* call, in the order of the calls and keyed by each call's id.
C7_SubmissionCoversBatch ==
    submitted # <<>> =>
        LET s == submitted[1]
        IN  /\ Len(s.outputs) = Len(s.pending)
            /\ \A i \in 1..Len(s.pending) :
                  s.outputs[i].tool_call_id = s.pending[i].id

\* Two pending calls of two different tools: both were invoked, both
\* outputs went out in one submission, and the run completed.
C7_Witness ==
    /\ submitted # <<>>
    /\ Len(submitted[1].pending) = 2
    /\ Len(submitted[1].outputs) = 2
    /\ invoked = <<"page_metadata", "search_internet">>
    /\ run.status = "completed"

\* C8 (as claimed): a tool that is not in the registry is never invoked,
\* and no batch that requests one is ever submitted.
C8_UnregisteredToolFailsRun ==
    /\ \A i \in 1..Len(invoked) : invoked[i] \in Registry
    /\ submitted # <<>> =>
          \A i \in 1..Len(submitted[1].pending) :
             submitted[1].pending[i].name \in Registry

----------------------------------------------------------------------------
(* Failure and ordering properties.                                        *)

\* The task the scan took up last has not been marked done.
Unfinished == task # 0 /\ (steps = <<>> \/ Last(steps) # "done")

\* C9: the step at which an exception is raised ends execute ("fatal")
\* and changes neither the project, nor what was submitted or collected,
\* nor the thread or the directory; nothing of that execute follows it
\* (only a new process may start); and in the fatal state the task in
\* flight is not done and the done flags are true exactly for the tasks
\* that were done at the start or were completed before.
C9_FatalErrorAborts ==
    /\ [][(error = "none" /\ error' # "none") =>
             /\ pc' = "fatal"
             /\ project' = project
             /\ submitted' = submitted
             /\ tool_outputs' = tool_outputs
             /\ thread' = thread
             /\ directory' = directory
             /\ executed' = executed]_vars
    /\ [][pc = "fatal" => (pc' = "reconcile" /\ project' = saved)]_vars
    /\ [](pc = "fatal" =>
             /\ error # "none"
             /\ Unfinished => ~project.tasks[task].done
             /\ \A i \in TaskIds :
                   project.tasks[i].done <=>
                      (saved.tasks[i].done \/ i \in Range(executed)))

\* The tool of the second task raised after the first task was completed.
C9_Witness ==
    /\ pc = "fatal"
    /\ error = "ToolError"
    /\ executed = <<1>>
    /\ task = 2
    /\ project.tasks[1].done
    /\ ~project.tasks[2].done
    /\ invoked # <<>>

Phase(step) ==
    CASE step = "post" -> 1
      [] step = "run" -> 2
      [] step \in {"invoke", "submit"} -> 3
      [] step = "read" -> 4
      [] step = "prompt" -> 5
      [] step = "done" -> 6

\* C10: the steps taken for a task are, in this order: post, run, tool
\* rounds (invocations closed by a submission), read, prompt, done, each
\* of the five single steps at most once and none without the one before
\* it; the thread is read only when the run has ended; and the task taken
\* up is done exactly when its last step is the marking that follows the
\* operator's answer, the tasks marked being the ones executed.
C10_StepOrder ==
    /\ \A i, j \in 1..Len(steps) : i < j => Phase(steps[i]) <= Phase(steps[j])
    /\ \A i, j \in 1..Len(steps) :
          (i # j /\ steps[i] = steps[j]) => steps[i] \in {"invoke", "submit"}
    /\ \A i \in 1..Len(steps) :
          /\ (i = 1) <=> (steps[i] = "post")
          /\ steps[i] = "run" => steps[i - 1] = "post"
          /\ steps[i] = "read" => steps[i - 1] \in {"run", "submit"}
          /\ steps[i] = "prompt" => steps[i - 1] = "read"
          /\ steps[i] = "done" => steps[i - 1] = "prompt"
    /\ (steps # <<>> /\ Last(steps) \in {"read", "prompt", "done"}) =>
          run.status \in {"completed", "failed"}
    /\ \A i \in TaskIds :
          (project.tasks[i].done /\ ~saved.tasks[i].done) <=> i \in Range(executed)
    /\ task # 0 =>
          (project.tasks[task].done <=> (steps # <<>> /\ Last(steps) = "done"))

\* A task went through a tool round with two invocations and was marked.
C10_Witness ==
    steps = <<"post", "run", "invoke", "invoke", "submit", "read", "prompt", "done">>

----------------------------------------------------------------------------
(* Response properties.                                                    *)

\* The thread has been read for the task taken up.
HasRead == \E i \in 1..Len(steps) : steps[i] = "read"

\* C11: once the thread has been read for a task (which happens only when
\* its run has ended), a response is surfaced exactly when the most
\* recent message of the thread was written by the assistant, and the
\* response is that message, a reply to this task; when the most recent
\* message is a user message (the task's own instructions, the run having
\* posted nothing), no response is surfaced.
C11_ResponseOnlyFromAssistant ==
    /\ response # <<>> =>
          /\ HasRead
          /\ response[1].role = "assistant"
          /\ response[1] = MostRecentMessage
          /\ response[1] = AssistantMessage(task)
    /\ (HasRead /\ Unfinished) =>
          /\ run.status \in {"completed", "failed"}
          /\ thread # <<>>
          /\ (response # <<>>) <=> (MostRecentMessage.role = "assistant")
          /\ MostRecentMessage.role = "user" =>
                (response = <<>> /\ MostRecentMessage = UserMessage(task))

\* The run of the second task ended without a message: the most recent
\* message is the task's instructions and nothing was surfaced, although
\* an assistant's reply to the first task is on the thread.
C11_Witness ==
    /\ pc = "input"
    /\ task = 2
    /\ Len(thread) = 3
    /\ thread[2].role = "assistant"
    /\ MostRecentMessage = UserMessage(2)
    /\ response = <<>>

----------------------------------------------------------------------------
(* Persistence properties.                                                 *)

----------------------------------------------------------------------------
(* Resumed projects.                                                       *)

\* C13 (as claimed): a well-formed acyclic project in which some tasks are
\* already done when execute is called reaches the end of execute (its
\* return, unless a call raises), the tasks done at the start never being
\* executed.
C13_ResumedTerminates ==
    (/\ WellFormed(saved)
     /\ NoDangling(saved.tasks)
     /\ ~HasCycle(saved.tasks)
     /\ ~Fresh(saved.tasks))
        => /\ <>(pc = "returned" \/ (pc = "fatal" /\ error \in CallErrors))
           /\ [](\A n \in 1..Len(executed) : ~saved.tasks[executed[n]].done)

----------------------------------------------------------------------------
(* Execution order.                                                        *)

\* Task j is not done and all its dependencies are done.
ReadyNow(j) ==
    /\ ~project.tasks[j].done
    /\ ReadyCheck(tasks, project.tasks, project.tasks[j].depends_on) = "True"

\* Every task is declared after the tasks it depends on.
Topological(ts) ==
    \A i \in 1..Len(ts) :
       \A d \in Range(ts[i].depends_on) : \E j \in 1..(i - 1) : ts[j].title = d

\* One task at a time: while a task is in flight the tasks done are exactly
\* the tasks completed before it.
OneAtATime ==
    InFlight =>
       /\ task \notin Range(executed)
       /\ \A j \in TaskIds : project.tasks[j].done <=> j \in Range(executed)

\* No task declared before the task in flight was ready when it started.
EarlierReadyFirst == InFlight => \A j \in 1..(task - 1) : ~ReadyNow(j)

\* A list declared in a topological order is executed in the declared
\* order, in the first scan.
TopologicalInOneScan ==
    Topological(saved.tasks) =>
       /\ executed = [n \in 1..Len(executed) |-> n]
       /\ scan_base = 0

\* C14 (as claimed), for task lists with distinct titles and no task done
\* at the start: one task at a time, among the tasks ready at the same
\* moment the one declared earlier starts first, and a list declared in a
\* topological order is executed in that order in one scan.
C14_DeclaredOrder ==
    (UniqueTitles(saved.tasks) /\ Fresh(saved.tasks)) =>
        /\ OneAtATime
        /\ EarlierReadyFirst
        /\ TopologicalInOneScan

----------------------------------------------------------------------------
(* Tool restriction.                                                       *)

\* C15 (as claimed): the run of a task is started with the tools of
\* task.functions, and every function the bridge invokes for that run is
\* one named in task.functions.
C15_RunRestrictedToTaskFunctions ==
    /\ pc \in {"poll", "bridge", "list", "input", "mark"} =>
          run.tools = project.tasks[task].functions
    /\ \A i \in 1..Len(invoked) :
          invoked[i] \in Range(project.tasks[task].functions)

----------------------------------------------------------------------------
(* Identity of the assignee.                                               *)

\* The identity name of the assignee of the task taken up.
AssigneeName == generate_assistant_name(project, project.tasks[task].assigned_to)

\* The instructions of the task taken up have been posted.
Posted == task # 0 /\ steps # <<>>

\* C16 (as claimed): whenever a run has been started for a task, the
\* identity named for task.assigned_to is in the directory and was
\* reconciled earlier in this execute, whether or not the assignee is one
\* of project.assistants; and the instructions of a task are posted only
\* once that identity is ensured.
C16_AssigneeIdentityEnsured ==
    /\ pc \in {"poll", "bridge", "list", "input", "mark"} =>
          /\ AssigneeName \in NamesOf(directory)
          /\ AssigneeName \in reconciled
    /\ Posted =>
          /\ AssigneeName \in NamesOf(directory)
          /\ AssigneeName \in reconciled

----------------------------------------------------------------------------
(* Outcome of the run.                                                     *)

\* C17 (as claimed): a task is marked done only if its run ended
\* completed; when the latest run is failed, its task is not done and no
\* later task has been taken up.
C17_DoneOnlyIfCompleted ==
    /\ (steps # <<>> /\ Last(steps) = "done") => run.status = "completed"
    /\ run.status = "failed" =>
          /\ ~project.tasks[task].done
          /\ pc \notin {"post", "lookup", "run"}

----------------------------------------------------------------------------
(* The done flag.                                                          *)

\* The project with every done flag erased.
WithoutDone(p) ==
    [p EXCEPT !.tasks = [i \in 1..Len(p.tasks) |-> [p.tasks[i] EXCEPT !.done = FALSE]]]

\* C18: in every step of execute no done flag goes from true to false; a
\* flag that changes goes from false to true, for one task in a step,
\* which is the task being marked and was never marked before; and apart
\* from the done flags the project (every field of every Task and
\* Assistant) stays as execute received it.
C18_DoneMonotonic ==
    /\ [][pc \notin {"returned", "fatal"} =>
             /\ \A i \in TaskIds : project.tasks[i].done => project'.tasks[i].done
             /\ \A i \in TaskIds :
                   project'.tasks[i].done # project.tasks[i].done =>
                      /\ pc = "mark" /\ i = task
                      /\ i \notin Range(executed)
                      /\ executed' = Append(executed, i)
             /\ WithoutDone(project') = WithoutDone(project)]_vars
    /\ [](/\ WithoutDone(project) = WithoutDone(saved)
          /\ NoRepeat(executed)
          /\ \A i \in TaskIds : saved.tasks[i].done => project.tasks[i].done)

\* A was done at the start and still is, B has just been marked done.
C18_Witness ==
    /\ Len(saved.tasks) = 2
    /\ saved.tasks[1].done
    /\ ~saved.tasks[2].done
    /\ project.tasks[1].done
    /\ project.tasks[2].done
    /\ executed = <<2>>
    /\ Last(steps) = "done"

----------------------------------------------------------------------------
(* Order of the bridge.                                                    *)

BatchNames(calls) == [i \in 1..Len(calls) |-> calls[i].name]

Prefix(s, t) == Len(s) <= Len(t) /\ \A i \in 1..Len(s) : s[i] = t[i]

\* C19: within a batch the functions are invoked one per step in the order
\* of the requests, each request once: what has been invoked is always the
\* batch's names up to the position of the loop; the outputs are submitted
\* only when every request of the batch has been invoked; a batch is
\* begun only by a poll (after the run's creation or after a submission)
\* that returned the run requiring action; and the poll that returns the
\* run in any other state leaves the loop.
C19_BridgeOrder ==
    /\ [](/\ pc = "bridge" =>
                /\ run.status = "requires_action"
                /\ submitted = <<>>
                /\ invoked = SubSeq(BatchNames(run.tool_calls), 1, k - 1)
                /\ Len(tool_outputs) = k - 1
          /\ run.status = "requires_action" =>
                /\ pc \in {"bridge", "fatal"}
                /\ Prefix(invoked, BatchNames(run.tool_calls))
                /\ Len(invoked) \in {k - 1, k}
                /\ submitted = <<>>
          /\ submitted # <<>> =>
                /\ invoked = BatchNames(submitted[1].pending)
                /\ run.status # "requires_action"
          /\ pc \in {"list", "input", "mark"} => run.status \in {"completed", "failed"})
    /\ [][/\ (invoked' # invoked /\ invoked' # <<>>) =>
                /\ pc = "bridge"
                /\ invoked' = Append(invoked, run.tool_calls[k].name)
          /\ (submitted' # submitted /\ submitted' # <<>>) =>
                /\ pc = "bridge"
                /\ Len(invoked) = Len(run.tool_calls)
                /\ submitted'[1].pending = run.tool_calls
          /\ (pc # "bridge" /\ pc' = "bridge") =>
                /\ pc = "poll"
                /\ Last(steps) \in {"run", "submit"}
                /\ run'.status = "requires_action"
                /\ k' = 1 /\ invoked' = <<>> /\ tool_outputs' = <<>>
          /\ (pc = "poll" /\ error' = "none") =>
                (pc' = "bridge" <=> run'.status = "requires_action")
         ]_vars

\* Two rounds for one run: a batch of two, submitted, then a batch of one,
\* submitted, then the run ended and the thread was read.
C19_Witness ==
    /\ steps = <<"post", "run", "invoke", "invoke", "submit", "invoke", "submit", "read">>
    /\ invoked = <<"get_function_list">>
    /\ run.status = "completed"

----------------------------------------------------------------------------
(* Frame of the reconciliation.                                            *)

\* The identities of a directory whose name is not n, in listing order.
Others(dir, n) == SelectSeq(dir, LAMBDA x : x.name # n)

IdsOf(dir) == {dir[i].id : i \in 1..Len(dir)}

\* C20: a call of update_or_create_assistant leaves the identities whose
\* name differs from the generated name of its assistant as they are (same
\* identities, same parameters, same order), removes no identity (every id
\* listed before is listed after, and the listing does not shrink), and
\* what it creates or updates carries the generated name; no other step
\* of execute touches the directory.
C20_ReconcileFrame ==
    [][IF pc = "reconcile" /\ a_pos' = a_pos + 1
       THEN /\ Others(directory', ReconciledName) = Others(directory, ReconciledName)
            /\ IdsOf(directory) \subseteq IdsOf(directory')
            /\ Len(directory') >= Len(directory)
            /\ \A i \in 1..Len(directory') :
                  directory'[i] \notin Range(directory) =>
                     directory'[i].name = ReconciledName
       ELSE directory' = directory]_vars

\* Against a directory that held an identity of another project and an
\* outdated one of this project, two assistants were reconciled: the first
\* one's identity was updated, the second one's created, the other
\* project's identity is as it was.
C20_Witness ==
    /\ pc = "reconcile"
    /\ a_pos = 3
    /\ Len(directory) = 3
    /\ directory[2] = OtherIdentity
    /\ directory[3].id = OwnIdentity.id
    /\ directory[3] # OwnIdentity
    /\ directory[1].id = FirstFreeId

====
